---- MODULE Spec2Model ----
(***************************************************************************)
(* Model of the PharmCAT VCF preprocessor:                                 *)
(*   src/src/scripts/PharmCAT_VCF_Preprocess.py   (run)                    *)
(*   src/src/scripts/vcf_preprocess_utilities.py  (the stage helpers)      *)
(*                                                                         *)
(* Text.  A Python str is modelled as a sequence of atoms.  An atom is     *)
(* either one of the separators "." and "/" or a word that contains        *)
(* neither.  No word of the alphabet used below is a prefix of another     *)
(* one, so two atom sequences are equal exactly when the strings they      *)
(* spell are equal, and str.split('.') / os.path.split work on atoms as    *)
(* they do on characters.                                                  *)
(***************************************************************************)
EXTENDS Integers, Sequences, FiniteSets, TLC

VARIABLES
    args,                    \* the parsed command line (argparse namespace)
    fs,                      \* the file system: resolved path -> file content
    pc,                      \* position of run() in its body
    tmp_files_to_be_removed, \* run's list of intermediates
    sample_list,             \* output_pharmcat_ready_vcf: samples still to write
    exit_code,               \* process exit status (-1 while running)
    failures,                \* tool failures injected so far
    failed,                  \* stages whose tool call did not succeed
    started,                 \* stages started, in order
    writes,                  \* history of files written by the stages
    removed,                 \* entries of tmp_files_to_be_removed handled
    remove_errors,           \* files whose os.remove raised OSError
    error,                   \* the exception that ended the run ("" if none)
    call,                    \* input of the pure function under check
    result                   \* its outcome

vars == <<args, fs, pc, tmp_files_to_be_removed, sample_list, exit_code,
          failures, failed, started, writes, removed, remove_errors, error,
          call, result>>

run_vars == <<args, fs, pc, tmp_files_to_be_removed, sample_list, exit_code,
              failures, failed, started, writes, removed, remove_errors,
              error>>

---------------------------------------------------------------------------
(* Bounds *)

MaxPathLen == 5
MaxPos == 2
MaxFailures == 1
MaxSamples == 3
MaxRecs == 2

---------------------------------------------------------------------------
(* Python str / os.path helpers *)

Dot == "."
Slash == "/"

RECURSIVE SplitOn(_, _)
\* str.split(sep): the maximal runs between separators, empty runs kept
SplitOn(s, sep) ==
    IF \A i \in 1..Len(s) : s[i] # sep
    THEN <<s>>
    ELSE LET i == CHOOSE k \in 1..Len(s) :
                      s[k] = sep /\ \A j \in 1..(k - 1) : s[j] # sep
         IN  <<SubSeq(s, 1, i - 1)>> \o SplitOn(SubSeq(s, i + 1, Len(s)), sep)

RECURSIVE JoinWith(_, _)
\* sep.join(parts)
JoinWith(parts, sep) ==
    IF Len(parts) = 0 THEN <<>>
    ELSE IF Len(parts) = 1 THEN parts[1]
    ELSE parts[1] \o <<sep>> \o JoinWith(Tail(parts), sep)

\* os.path.split(path)[1]: everything after the last slash
PathTail(path) ==
    LET slashes == {i \in 1..Len(path) : path[i] = Slash}
    IN  IF slashes = {} THEN path
        ELSE LET last == CHOOSE i \in slashes : \A j \in slashes : j <= i
             IN  SubSeq(path, last + 1, Len(path))

\* os.path.split(path)[0]: everything before the last slash, trailing slashes
\* stripped unless the head is made of slashes only
RECURSIVE RStripSlash(_)
RStripSlash(s) ==
    IF Len(s) > 0 /\ s[Len(s)] = Slash THEN RStripSlash(SubSeq(s, 1, Len(s) - 1))
    ELSE s

PathHead(path) ==
    LET slashes == {i \in 1..Len(path) : path[i] = Slash}
    IN  IF slashes = {} THEN <<>>
        ELSE LET last == CHOOSE i \in slashes : \A j \in slashes : j <= i
                 head == SubSeq(path, 1, last)
             IN  IF \A i \in 1..Len(head) : head[i] = Slash THEN head
                 ELSE RStripSlash(head)

\* os.path.join(a, b)
PathJoin(a, b) ==
    IF Len(b) > 0 /\ b[1] = Slash THEN b
    ELSE IF Len(a) = 0 \/ a[Len(a)] = Slash THEN a \o b
    ELSE a \o <<Slash>> \o b

VcfGz == <<Dot, "vcf", Dot, "gz">>
Tbi == <<Dot, "tbi">>

\* obtain_vcf_file_prefix: name[-2] is evaluated first and raises IndexError
\* when the file name has a single dot-separated component
obtain_vcf_file_prefix(path) ==
    LET vcf_file_full_name == SplitOn(PathTail(path), Dot)
        n == Len(vcf_file_full_name)
    IN  IF n < 2
        THEN [status |-> "IndexError", value |-> path]
        ELSE IF vcf_file_full_name[n - 1] = <<"vcf">>
                /\ vcf_file_full_name[n] = <<"gz">>
        THEN [status |-> "ok",
              value |-> JoinWith(SubSeq(vcf_file_full_name, 1, n - 2), Dot)]
        ELSE [status |-> "InappropriateVCFSuffix", value |-> path]

---------------------------------------------------------------------------
(* Path resolution.  The tools and os.remove are handed path strings; the   *)
(* file a string names is found by POSIX resolution against the working     *)
(* directory (empty and "." components dropped, ".." steps up).             *)

current_working_dir == <<Slash, "w">>

RECURSIVE Components(_, _)
Components(comps, acc) ==
    IF Len(comps) = 0 THEN acc
    ELSE LET c == Head(comps)
         IN  IF c = <<>> \/ c = <<Dot>>
             THEN Components(Tail(comps), acc)
             ELSE IF c = <<Dot, Dot>>
             THEN Components(Tail(comps),
                             IF Len(acc) = 0 THEN acc
                             ELSE SubSeq(acc, 1, Len(acc) - 1))
             ELSE Components(Tail(comps), Append(acc, c))

\* the absolute, normalised name of the file `path` denotes in directory `cwd`
ResolveFrom(cwd, path) ==
    <<Slash>> \o JoinWith(Components(SplitOn(PathJoin(cwd, path), Slash), <<>>),
                          Slash)

Resolve(path) == ResolveFrom(current_working_dir, path)

Exists(files, path) == Resolve(path) \in DOMAIN files

WriteFile(files, path, content) ==
    [q \in DOMAIN files \cup {Resolve(path)} |->
        IF q = Resolve(path) THEN content ELSE files[q]]

RemoveFile(files, path) ==
    [q \in DOMAIN files \ {Resolve(path)} |-> files[q]]

---------------------------------------------------------------------------
(* File contents.  A VCF is its ordered sample names and its records; a     *)
(* record is a site (chrom, pos, kind), its ALT alleles and the set of      *)
(* sample columns (by position in the header) whose genotype is called;     *)
(* every other column is "./.".  Records are kept sorted by the tools, so   *)
(* a set stands for the sorted list.  A .tbi holds what it indexes.         *)

Vcf(samples, recs) == [type |-> "vcf", samples |-> samples, recs |-> recs]

IndexOf(v) == [type |-> "tbi", samples |-> v.samples, recs |-> v.recs]

Site(r) == <<r.chrom, r.pos, r.kind>>

IsVcf(files, path) ==
    Exists(files, path) /\ files[Resolve(path)].type = "vcf"

SeqRange(s) == {s[i] : i \in 1..Len(s)}

\* --rename-chrs <map>: the mapping file maps contig "1" to "chr1"; a contig
\* the map does not name passes through
rename_chrs(chrom) == IF chrom = "1" THEN "chr1" ELSE chrom

\* bcftools annotate --rename-chrs
AnnotateRenameChrs(v) ==
    Vcf(v.samples, {[r EXCEPT !.chrom = rename_chrs(r.chrom)] : r \in v.recs})

\* records of `recs` joined per site: ALT union, a column called if called in any
JoinSites(recs) ==
    {[chrom |-> s[1], pos |-> s[2], kind |-> s[3],
      alts |-> UNION {r.alts : r \in {q \in recs : Site(q) = s}},
      called |-> UNION {r.called : r \in {q \in recs : Site(q) = s}}]
        : s \in {Site(r) : r \in recs}}

\* bcftools merge -m both a b: the columns of a followed by those of b, one
\* record per site, SNPs and indels kept apart
MergeVcfs(a, b) ==
    Vcf(a.samples \o b.samples,
        JoinSites(a.recs \cup
                  {[r EXCEPT !.called = {Len(a.samples) + i : i \in r.called}]
                      : r \in b.recs}))

\* bcftools merge refuses inputs that share a sample name
CanMerge(a, b) == SeqRange(a.samples) \cap SeqRange(b.samples) = {}

\* -f <ref_seq>: the leftmost equivalent anchor of an indel at `pos`.  In the
\* reference modelled, position 2 lies in a repeat that starts at position 1.
LeftAnchor(pos) == IF pos = 2 THEN 1 ELSE pos

\* bcftools norm -m+ -f ref: indels left-aligned, then records of one site joined
NormalizeVcf(v) ==
    Vcf(v.samples,
        JoinSites({IF r.kind = "indel"
                   THEN [r EXCEPT !.pos = LeftAnchor(r.pos)] ELSE r
                      : r \in v.recs}))

\* bcftools view -s <sample> -U: the sample's column alone, then the records
\* in which no remaining genotype is called are dropped
ColumnOf(v, sample) == CHOOSE i \in 1..Len(v.samples) : v.samples[i] = sample

\* (the filter applied to the whole record, before the column is taken)
ViewUncalledThenSample(v, sample) ==
    Vcf(<<sample>>,
        {[r EXCEPT !.called = IF ColumnOf(v, sample) \in r.called THEN {1} ELSE {}]
            : r \in {q \in v.recs : q.called # {}}})

ViewSampleUncalled(v, sample) ==
    Vcf(<<sample>>,
        {[r EXCEPT !.called = {1}]
            : r \in {q \in v.recs : ColumnOf(v, sample) \in q.called}})

\* -c indels: indel records of one position are the same entry whatever their
\* alleles; other records are the same entry only with identical alleles
IsecKey(r) ==
    IF r.kind = "indel" THEN <<r.chrom, r.pos, "indel", {}>>
    ELSE <<r.chrom, r.pos, r.kind, r.alts>>

\* (the same command without -C)
IsecIntersection(first, second) ==
    Vcf(first.samples,
        {r \in first.recs : IsecKey(r) \in {IsecKey(q) : q \in second.recs}})

\* bcftools isec -c indels -w1 -C first second: the records of the first file
\* with no counterpart in the second
IsecComplement(first, second) ==
    Vcf(first.samples,
        {r \in first.recs : IsecKey(r) \notin {IsecKey(q) : q \in second.recs}})

RECURSIVE RemoveFirst(_, _)
\* list.remove(x) on a list that holds x
RemoveFirst(s, x) ==
    IF Len(s) = 0 THEN s
    ELSE IF Head(s) = x THEN Tail(s)
    ELSE <<Head(s)>> \o RemoveFirst(Tail(s), x)

PharmCAT == <<"PharmCAT">>

\* obtain_vcf_sample_list on the header names of the VCF
obtain_vcf_sample_list(names) ==
    IF PharmCAT \in SeqRange(names)
    THEN [status |-> "ok", value |-> RemoveFirst(names, PharmCAT)]
    ELSE [status |-> "ValueError", value |-> names]

---------------------------------------------------------------------------
(* run(args): the paths it derives *)

\* directories that exist; a tool cannot create a file anywhere else
Dirs == {current_working_dir, current_working_dir \o <<Slash, "in">>,
         current_working_dir \o <<Slash, "out">>}

CanCreate(path) == PathHead(Resolve(path)) \in Dirs

intermediate_vcf_renamed_chr ==
    PathJoin(args.output_folder,
             obtain_vcf_file_prefix(args.input_vcf).value
                 \o <<Dot, "chr_renamed">> \o VcfGz)

intermediate_vcf_pgx_merged ==
    PathJoin(args.output_folder,
             obtain_vcf_file_prefix(intermediate_vcf_renamed_chr).value
                 \o <<Dot, "pgx_merged">> \o VcfGz)

intermediate_vcf_pgx_merged_normalized ==
    PathJoin(args.output_folder,
             obtain_vcf_file_prefix(intermediate_vcf_pgx_merged).value
                 \o <<Dot, "normalized">> \o VcfGz)

\* output_pharmcat_ready_vcf: output_file_name of one sample
SampleOutputName(single_sample) ==
    PathJoin(args.output_folder,
             args.output_prefix \o <<Dot>> \o single_sample \o VcfGz)

\* output_missing_pgx_positions: output_file_name
MissingOutputName ==
    PathJoin(args.output_folder,
             args.output_prefix \o <<Dot, "missing_pgx_var">> \o VcfGz)

---------------------------------------------------------------------------
(* Outcomes of a tool call.  A call whose inputs are in place succeeds     *)
(* unless a failure is injected; a call whose inputs are not exits with a   *)
(* non-zero status.  "raise" is subprocess raising (executable not found).  *)

Outcomes(can) ==
    (IF can THEN {"ok"} ELSE {"nonzero"})
        \cup (IF failures < MaxFailures THEN {"nonzero", "raise"} ELSE {})

Charge(can, o) == IF o = "raise" \/ (o = "nonzero" /\ can) THEN 1 ELSE 0

Abort(stage, exc) ==
    /\ pc' = "aborted"
    /\ exit_code' = 1
    /\ error' = exc
    /\ failed' = failed \cup {stage}

\* tabix_index_vcf(tabix, vcf_path): tabix runs in the directory part of
\* vcf_path and is handed vcf_path itself, so a relative vcf_path is looked
\* up below that directory; with no directory part cwd is '' and
\* subprocess.run raises.  Any exception ends the process with status 1, a
\* non-zero status of tabix is not looked at
TabixIndex(stage, vcf_path, next, tmp) ==
    LET head == PathHead(vcf_path)
        target == ResolveFrom(Resolve(head), vcf_path)
        can == target \in DOMAIN fs /\ fs[target].type = "vcf"
    IN  \E o \in (IF head = <<>> THEN {"raise"} ELSE Outcomes(can)) :
           /\ started' = Append(started, stage)
           /\ failures' = failures + (IF head = <<>> THEN 0 ELSE Charge(can, o))
           /\ IF o = "raise"
              THEN /\ Abort(stage, "SystemExit")
                   /\ UNCHANGED <<fs, tmp_files_to_be_removed>>
              ELSE /\ pc' = next
                   /\ fs' = IF o = "ok"
                            THEN WriteFile(fs, target \o Tbi, IndexOf(fs[target]))
                            ELSE fs
                   /\ failed' = IF o = "ok" THEN failed ELSE failed \cup {stage}
                   /\ tmp_files_to_be_removed' = tmp_files_to_be_removed \o tmp
                   /\ UNCHANGED <<exit_code, error>>
           /\ UNCHANGED <<args, sample_list, writes, removed, remove_errors,
                          call, result>>

\* running_bcftools(command): subprocess.run without check; the command's
\* output file is written only when the command succeeds
Bcftools(stage, can, reads, sample, path_output, content, next) ==
    \E o \in Outcomes(can /\ CanCreate(path_output)) :
       /\ failures' = failures + Charge(can /\ CanCreate(path_output), o)
       /\ IF o = "raise"
          THEN /\ Abort(stage, "OSError")
               /\ UNCHANGED <<fs, writes>>
          ELSE /\ pc' = next
               /\ fs' = IF o = "ok" THEN WriteFile(fs, path_output, content)
                        ELSE fs
               /\ writes' = IF o = "ok"
                            THEN Append(writes,
                                        [stage |-> stage,
                                         reads |-> {Resolve(q) : q \in reads},
                                         sample |-> sample,
                                         path |-> Resolve(path_output)])
                            ELSE writes
               /\ failed' = IF o = "ok" THEN failed ELSE failed \cup {stage}
               /\ UNCHANGED <<exit_code, error>>
       /\ UNCHANGED <<args, tmp_files_to_be_removed, removed, remove_errors,
                      call, result>>

Indexed(path) == Exists(fs, path \o Tbi)

---------------------------------------------------------------------------
(* run(args), one action per call it makes.  args.ref_seq is given, so     *)
(* nothing is downloaded.                                                   *)

ReadVcf(path) == fs[Resolve(path)]

\* lines 22-23: index the input unless <input>.tbi exists
IndexInput ==
    /\ pc = "index_input"
    /\ IF Indexed(args.input_vcf)
       THEN /\ pc' = "rename"
            /\ UNCHANGED <<args, fs, tmp_files_to_be_removed, sample_list,
                           exit_code, failures, failed, started, writes,
                           removed, remove_errors, error, call, result>>
       ELSE TabixIndex("index_input", args.input_vcf, "rename", <<>>)

\* lines 26-27: derive the renamed file's name, bcftools annotate --rename-chrs
RenameChr ==
    /\ pc = "rename"
    /\ UNCHANGED sample_list
    /\ IF obtain_vcf_file_prefix(args.input_vcf).status # "ok"
       THEN /\ Abort("rename", obtain_vcf_file_prefix(args.input_vcf).status)
            /\ UNCHANGED <<args, fs, tmp_files_to_be_removed, failures, writes,
                           started, removed, remove_errors, call, result>>
       ELSE /\ started' = Append(started, "rename")
            /\ Bcftools("rename", IsVcf(fs, args.input_vcf), {args.input_vcf},
                        <<>>, intermediate_vcf_renamed_chr,
                        AnnotateRenameChrs(ReadVcf(args.input_vcf)),
                        "index_renamed")

\* lines 28-29
IndexRenamed ==
    /\ pc = "index_renamed"
    /\ TabixIndex("index_renamed", intermediate_vcf_renamed_chr, "merge",
                  <<intermediate_vcf_renamed_chr>>)

\* lines 33-34: bcftools merge needs both files and their indexes
MergeStage ==
    /\ pc = "merge"
    /\ started' = Append(started, "merge")
    /\ UNCHANGED sample_list
    /\ Bcftools("merge",
                /\ IsVcf(fs, intermediate_vcf_renamed_chr)
                /\ Indexed(intermediate_vcf_renamed_chr)
                /\ IsVcf(fs, args.ref_pgx_vcf)
                /\ Indexed(args.ref_pgx_vcf)
                /\ CanMerge(ReadVcf(intermediate_vcf_renamed_chr),
                            ReadVcf(args.ref_pgx_vcf)),
                {intermediate_vcf_renamed_chr, args.ref_pgx_vcf}, <<>>,
                intermediate_vcf_pgx_merged,
                MergeVcfs(ReadVcf(intermediate_vcf_renamed_chr),
                          ReadVcf(args.ref_pgx_vcf)),
                "index_merged")

\* lines 35-36
IndexMerged ==
    /\ pc = "index_merged"
    /\ TabixIndex("index_merged", intermediate_vcf_pgx_merged, "normalize",
                  <<intermediate_vcf_pgx_merged>>)

\* lines 40-41
NormalizeStage ==
    /\ pc = "normalize"
    /\ started' = Append(started, "normalize")
    /\ UNCHANGED sample_list
    /\ Bcftools("normalize", IsVcf(fs, intermediate_vcf_pgx_merged),
                {intermediate_vcf_pgx_merged}, <<>>,
                intermediate_vcf_pgx_merged_normalized,
                NormalizeVcf(ReadVcf(intermediate_vcf_pgx_merged)),
                "index_normalized")

\* lines 42-43
IndexNormalized ==
    /\ pc = "index_normalized"
    /\ TabixIndex("index_normalized", intermediate_vcf_pgx_merged_normalized,
                  "split_list", <<intermediate_vcf_pgx_merged_normalized>>)

\* line 46, utilities line 146: bcftools query -l through check_output (a
\* non-zero status raises CalledProcessError), then list.remove('PharmCAT')
SplitList ==
    /\ pc = "split_list"
    /\ started' = Append(started, "split")
    /\ \E o \in Outcomes(IsVcf(fs, intermediate_vcf_pgx_merged_normalized)) :
          /\ failures' = failures
                + Charge(IsVcf(fs, intermediate_vcf_pgx_merged_normalized), o)
          /\ IF o # "ok"
             THEN /\ Abort("split", IF o = "raise" THEN "OSError"
                                    ELSE "CalledProcessError")
                  /\ UNCHANGED sample_list
             ELSE LET l == obtain_vcf_sample_list(
                               ReadVcf(intermediate_vcf_pgx_merged_normalized).samples)
                  IN  IF l.status # "ok"
                      THEN /\ Abort("split", l.status)
                           /\ UNCHANGED sample_list
                      ELSE /\ sample_list' = l.value
                           /\ pc' = "split_loop"
                           /\ UNCHANGED <<exit_code, error, failed>>
    /\ UNCHANGED <<args, fs, tmp_files_to_be_removed, writes, removed,
                   remove_errors, call, result>>

\* utilities lines 148-151: one bcftools view -U -s <sample> per list entry
SplitSample ==
    /\ pc = "split_loop"
    /\ Len(sample_list) > 0
    /\ sample_list' = Tail(sample_list)
    /\ UNCHANGED started
    /\ Bcftools("split",
                /\ IsVcf(fs, intermediate_vcf_pgx_merged_normalized)
                /\ Head(sample_list) \in
                      SeqRange(ReadVcf(intermediate_vcf_pgx_merged_normalized).samples),
                {intermediate_vcf_pgx_merged_normalized}, Head(sample_list),
                SampleOutputName(Head(sample_list)),
                ViewSampleUncalled(ReadVcf(intermediate_vcf_pgx_merged_normalized),
                                   Head(sample_list)),
                "split_loop")

\* the loop of line 148 is over
SplitDone ==
    /\ pc = "split_loop"
    /\ Len(sample_list) = 0
    /\ pc' = "missing"
    /\ UNCHANGED <<args, fs, tmp_files_to_be_removed, sample_list, exit_code,
                   failures, failed, started, writes, removed, remove_errors,
                   error, call, result>>

\* line 49, utilities lines 164-166: bcftools isec -C template normalized
MissingReport ==
    /\ pc = "missing"
    /\ started' = Append(started, "missing")
    /\ UNCHANGED sample_list
    /\ Bcftools("missing",
                /\ IsVcf(fs, args.ref_pgx_vcf)
                /\ Indexed(args.ref_pgx_vcf)
                /\ IsVcf(fs, intermediate_vcf_pgx_merged_normalized)
                /\ Indexed(intermediate_vcf_pgx_merged_normalized),
                {args.ref_pgx_vcf, intermediate_vcf_pgx_merged_normalized}, <<>>,
                MissingOutputName,
                IsecComplement(ReadVcf(args.ref_pgx_vcf),
                               ReadVcf(intermediate_vcf_pgx_merged_normalized)),
                "cleanup")

\* os.remove(path): raises OSError when the file is not there, or on injection
RemoveOutcomes(files, path, budget) ==
    (IF Exists(files, path) THEN {"ok"} ELSE {"OSError"})
        \cup (IF budget < MaxFailures THEN {"OSError"} ELSE {})

\* lines 52-53, utilities lines 93-98: both os.remove calls sit in one try
RemoveVcfAndIndex ==
    /\ pc = "cleanup"
    /\ removed < Len(tmp_files_to_be_removed)
    /\ removed' = removed + 1
    /\ LET path_to_vcf == tmp_files_to_be_removed[removed + 1]
       IN  \E o1 \in RemoveOutcomes(fs, path_to_vcf, failures) :
              IF o1 = "OSError"
              THEN /\ fs' = fs
                   /\ remove_errors' = remove_errors \cup {Resolve(path_to_vcf)}
                   /\ failures' = failures
                         + (IF Exists(fs, path_to_vcf) THEN 1 ELSE 0)
              ELSE LET fs1 == RemoveFile(fs, path_to_vcf)
                   IN  \E o2 \in RemoveOutcomes(fs1, path_to_vcf \o Tbi, failures) :
                          IF o2 = "OSError"
                          THEN /\ fs' = fs1
                               /\ remove_errors' = remove_errors
                                     \cup {Resolve(path_to_vcf \o Tbi)}
                               /\ failures' = failures
                                     + (IF Exists(fs1, path_to_vcf \o Tbi)
                                        THEN 1 ELSE 0)
                          ELSE /\ fs' = RemoveFile(fs1, path_to_vcf \o Tbi)
                               /\ UNCHANGED <<remove_errors, failures>>
    /\ UNCHANGED <<args, pc, tmp_files_to_be_removed, sample_list, exit_code,
                   failed, started, writes, error, call, result>>

\* run returns; the interpreter exits with status 0
Finish ==
    /\ pc = "cleanup"
    /\ removed = Len(tmp_files_to_be_removed)
    /\ pc' = "done"
    /\ exit_code' = 0
    /\ UNCHANGED <<args, fs, tmp_files_to_be_removed, sample_list, failures,
                   failed, started, writes, removed, remove_errors, error,
                   call, result>>

---------------------------------------------------------------------------
(* The command lines and files a run starts from *)

Abs(name) == current_working_dir \o <<Slash>> \o name

TemplatePath == Abs(<<"ref">> \o VcfGz)

InputPaths ==
    { Abs(<<"x">> \o VcfGz),                    \* absolute
      <<"in", Slash, "x">> \o VcfGz,            \* relative, with a directory
      <<"x">> \o VcfGz,                         \* a bare file name
      Abs(<<"x">>),                             \* no suffix at all
      Abs(<<"x", Dot, "vcf">>),                 \* not compressed
      Abs(<<"pharmcat_ready_vcf", Dot, "missing_pgx_var">> \o VcfGz) }

OutputFolders == {current_working_dir, <<"out">>}

OutputPrefixes == {<<"pharmcat_ready_vcf">>, <<"x">>}

InputSampleLists ==
    { <<<<"a">>>>, <<<<"a">>, <<"b">>>>, <<<<"a">>, <<"missing_pgx_var">>>>,
      <<<<"chr_renamed">>>> }

Rec(chrom, pos, kind, alts, called) ==
    [chrom |-> chrom, pos |-> pos, kind |-> kind, alts |-> alts,
     called |-> called]

\* the PGx template: a SNP and an indel at position 1, with the sample column
\* 'PharmCAT' (called everywhere) or with no sample column
TemplateVcfs ==
    { Vcf(<<PharmCAT>>, {Rec("chr1", 1, "snp", {"T"}, {1}),
                         Rec("chr1", 1, "indel", {"del"}, {1})}),
      Vcf(<<>>, {Rec("chr1", 1, "snp", {"T"}, {}),
                 Rec("chr1", 1, "indel", {"del"}, {})}) }

InputVcfs ==
    { Vcf(samples, recs) :
        samples \in InputSampleLists,
        recs \in SUBSET { Rec("1", 1, "snp", {"T"}, {1}),
                          Rec("1", 2, "indel", {"ins"}, {1}),
                          Rec("chr1", MaxPos, "snp", {"G"}, {}) } }

NoCall == [fn |-> "none"]

Init ==
    /\ args \in [input_vcf : InputPaths, output_folder : OutputFolders,
                 output_prefix : OutputPrefixes, ref_pgx_vcf : {TemplatePath}]
    /\ \E input \in InputVcfs, template \in TemplateVcfs, indexed \in BOOLEAN :
          fs = LET f0 == WriteFile(
                            WriteFile(
                                WriteFile(<<>>, args.input_vcf, input),
                                TemplatePath, template),
                            TemplatePath \o Tbi, IndexOf(template))
               IN  IF indexed
                   THEN WriteFile(f0, args.input_vcf \o Tbi, IndexOf(input))
                   ELSE f0
    /\ pc = "index_input"
    /\ tmp_files_to_be_removed = <<>>
    /\ sample_list = <<>>
    /\ exit_code = -1
    /\ failures = 0
    /\ failed = {}
    /\ started = <<>>
    /\ writes = <<>>
    /\ removed = 0
    /\ remove_errors = {}
    /\ error = ""
    /\ call = NoCall
    /\ result = NoCall

Next ==
    \/ IndexInput
    \/ RenameChr
    \/ IndexRenamed
    \/ MergeStage
    \/ IndexMerged
    \/ NormalizeStage
    \/ IndexNormalized
    \/ SplitList
    \/ SplitSample
    \/ SplitDone
    \/ MissingReport
    \/ RemoveVcfAndIndex
    \/ Finish

Spec == Init /\ [][Next]_vars

---------------------------------------------------------------------------
(* Claims about a run of the pipeline (specification Spec) *)

IsPrefix(s, t) == Len(s) <= Len(t) /\ SubSeq(t, 1, Len(s)) = s

StageOrder ==
    <<"rename", "index_renamed", "merge", "index_merged", "normalize",
      "index_normalized", "split", "missing">>

\* the file at `path` is there, was written by `stage`, and its index is
\* there and is the index of what the file holds now
ProducedAndIndexed(stage, path) ==
    /\ IsVcf(fs, path)
    /\ \E i \in 1..Len(writes) :
          writes[i].stage = stage /\ writes[i].path = Resolve(path)
    /\ Indexed(path)
    /\ fs[Resolve(path \o Tbi)] = IndexOf(ReadVcf(path))

\* C1: the stages run in the order rename, merge, normalize, split, missing
\* report; a stage that has started finds the artifact the stage before it
\* wrote, with an index built from it; the rename stage finds an index of the
\* original input.
C1_StagesInOrderOnIndexedArtifacts ==
    /\ \/ IsPrefix(started, StageOrder)
       \/ IsPrefix(started, <<"index_input">> \o StageOrder)
    /\ "rename" \in SeqRange(started) => Indexed(args.input_vcf)
    /\ "merge" \in SeqRange(started)
          => ProducedAndIndexed("rename", intermediate_vcf_renamed_chr)
    /\ "normalize" \in SeqRange(started)
          => ProducedAndIndexed("merge", intermediate_vcf_pgx_merged)
    /\ "split" \in SeqRange(started)
          => ProducedAndIndexed("normalize",
                                intermediate_vcf_pgx_merged_normalized)

\* C2: a stage that fails ends the run there with a non-zero exit status, and
\* a run that exits with status 0 had no failing stage.
C2_FailureAbortsTheRun ==
    /\ failed # {} => pc = "aborted" /\ exit_code # 0
    /\ exit_code = 0 => failed = {}

\* the original input has a record at the position of template record t, once
\* its contig is renamed and an indel is left-aligned
InputSupplies(input, t) ==
    \E r \in input.recs :
        /\ rename_chrs(r.chrom) = t.chrom
        /\ (IF r.kind = "indel" THEN LeftAnchor(r.pos) ELSE r.pos) = t.pos

Overwritten(path) ==
    \E i \in 1..Len(writes) : writes[i].path = Resolve(path)

\* C6: after a successful run the missing-position report holds the template's
\* record of exactly the template positions the input supplied no record for.
C6_ReportHoldsPositionsInputLacks ==
    (/\ pc = "done"
     /\ failed = {}
     /\ ~Overwritten(args.input_vcf)
     /\ ~Overwritten(args.ref_pgx_vcf)
     /\ IsVcf(fs, MissingOutputName))
    => \A t \in ReadVcf(args.ref_pgx_vcf).recs :
          t \in ReadVcf(MissingOutputName).recs
              <=> ~InputSupplies(ReadVcf(args.input_vcf), t)

\* C8: a stage never writes the file it reads, the original input, the
\* template, or a file an earlier stage (or an earlier sample) wrote.
C8_NoStageOverwritesAnArtifact ==
    \A i \in 1..Len(writes) :
        /\ writes[i].path \notin writes[i].reads
        /\ writes[i].path # Resolve(args.input_vcf)
        /\ writes[i].path # Resolve(args.ref_pgx_vcf)
        /\ \A j \in 1..(i - 1) : writes[j].path # writes[i].path

\* C9: nothing a stage wrote is deleted before the clean-up; when the run
\* ends every intermediate and every index of one is gone unless os.remove
\* failed on that very file, and the input, the template, the per-sample
\* outputs and the report are still there.
C9_CleanupRemovesIntermediatesOnly ==
    /\ pc \notin {"cleanup", "done"}
          => \A i \in 1..Len(writes) : writes[i].path \in DOMAIN fs
    /\ pc = "done"
          => /\ \A i \in 1..Len(tmp_files_to_be_removed) :
                   LET path_to_vcf == tmp_files_to_be_removed[i]
                   IN  /\ Exists(fs, path_to_vcf)
                            => Resolve(path_to_vcf) \in remove_errors
                       /\ Exists(fs, path_to_vcf \o Tbi)
                            => Resolve(path_to_vcf \o Tbi) \in remove_errors
             /\ Exists(fs, args.input_vcf)
             /\ Exists(fs, args.ref_pgx_vcf)
             /\ \A i \in 1..Len(writes) :
                   writes[i].stage \in {"split", "missing"}
                       => writes[i].path \in DOMAIN fs

---------------------------------------------------------------------------
(* The split stage on every normalized file (specification SpecSplit).     *)
(* The run has reached line 46: the three intermediates are written and     *)
(* indexed; only the normalized one, which the stage reads, is kept here.   *)

SeqsUpTo(S, n) == UNION {[1..k -> S] : k \in 0..n}

\* the header of the normalized file: input samples, then the template's
SplitSampleOrder ==
    <<<<"a">>, <<Slash, "x">>, <<Slash, Slash, "x">>, PharmCAT>>

\* the entries of s at the indices I, in order
SubSeqAt(s, I) ==
    [k \in 1..Cardinality(I) |->
        s[CHOOSE i \in I : Cardinality({j \in I : j < i}) = k - 1]]

\* header names are pairwise different in a VCF
SplitSampleLists ==
    {SubSeqAt(SplitSampleOrder, I) :
        I \in {J \in SUBSET (1..Len(SplitSampleOrder)) :
                  Cardinality(J) <= MaxSamples}}

\* one SNP record at each position of some set of positions, each with any
\* set of called columns
NormalizedVcfs ==
    UNION { { Vcf(samples,
                  {Rec("chr1", pos, "snp", {"T"}, called[pos]) : pos \in P})
                : called \in [P -> SUBSET (1..Len(samples))] }
            : samples \in SplitSampleLists, P \in SUBSET (1..MaxPos) }

SplitPrefixes == {<<"pharmcat_ready_vcf">>, <<>>}

\* intermediate_vcf_pgx_merged_normalized of the input /w/x.vcf.gz with the
\* default output folder
SplitInputPath ==
    Abs(<<"x", Dot, "chr_renamed", Dot, "pgx_merged", Dot, "normalized">>
            \o VcfGz)

InitSplit ==
    /\ args \in [input_vcf : {Abs(<<"x">> \o VcfGz)},
                 output_folder : {current_working_dir},
                 output_prefix : SplitPrefixes,
                 ref_pgx_vcf : {TemplatePath}]
    /\ \E normalized \in NormalizedVcfs :
          fs = (SplitInputPath :> normalized)
                  @@ (SplitInputPath \o Tbi :> IndexOf(normalized))
    /\ pc = "split_list"
    /\ tmp_files_to_be_removed =
          <<Abs(<<"x", Dot, "chr_renamed">> \o VcfGz),
            Abs(<<"x", Dot, "chr_renamed", Dot, "pgx_merged">> \o VcfGz),
            SplitInputPath>>
    /\ sample_list = <<>>
    /\ exit_code = -1
    /\ failures = 0
    /\ failed = {}
    /\ started = SubSeq(StageOrder, 1, 6)
    /\ writes = <<>>
    /\ removed = 0
    /\ remove_errors = {}
    /\ error = ""
    /\ call = NoCall
    /\ result = NoCall

NextSplit ==
    \/ SplitList
    \/ SplitSample
    \/ SplitDone

SpecSplit == InitSplit /\ [][NextSplit]_vars

Normalized == ReadVcf(intermediate_vcf_pgx_merged_normalized)

SplitWrites == {i \in 1..Len(writes) : writes[i].stage = "split"}

\* the file written for writes[i] still holds what that write put there
StillThere(i) ==
    /\ writes[i].path \in DOMAIN fs
    /\ \A j \in (i + 1)..Len(writes) : writes[j].path # writes[i].path

WritesFor(S) == {i \in SplitWrites : writes[i].sample = S}

\* C4: whatever the sample list, the split stage does not stop on the list
\* itself, and once it is over with no failed command it has written one file
\* for each sample other than 'PharmCAT' and none for 'PharmCAT'.
C4_OneFilePerRealSample ==
    /\ error # "ValueError"
    /\ (pc = "missing" /\ failed = {})
          => \A S \in SeqRange(Normalized.samples) :
                Cardinality(WritesFor(S)) = (IF S = PharmCAT THEN 0 ELSE 1)

\* two different samples of the list are given one output file
Collision ==
    \E S1, S2 \in SeqRange(Normalized.samples) \ {PharmCAT} :
        /\ S1 # S2
        /\ Resolve(SampleOutputName(S1)) = Resolve(SampleOutputName(S2))

\* C5: when two different samples are given one output file the stage
\* writes no output file and ends with SampleNameCollisionError (a stage that
\* the listing of the samples has already stopped is left aside), and no
\* file written for one sample is written again for another.
C5_CollisionIsReported ==
    /\ Collision => SplitWrites = {}
    /\ (Collision /\ pc \in {"missing", "aborted"}
           /\ error \notin {"ValueError", "CalledProcessError", "OSError"})
          => error = "SampleNameCollisionError"
    /\ \A i, j \in SplitWrites :
          writes[i].sample # writes[j].sample
              => writes[i].path # writes[j].path

---------------------------------------------------------------------------
(* Pure functions, each applied once to an input drawn by Init *)

RunIdle ==
    /\ args = [input_vcf |-> <<>>, output_folder |-> <<>>,
               output_prefix |-> <<>>, ref_pgx_vcf |-> <<>>]
    /\ fs = <<>>
    /\ pc = "idle"
    /\ tmp_files_to_be_removed = <<>>
    /\ sample_list = <<>>
    /\ exit_code = -1
    /\ failures = 0
    /\ failed = {}
    /\ started = <<>>
    /\ writes = <<>>
    /\ removed = 0
    /\ remove_errors = {}
    /\ error = ""

PathAtoms == {"x", Dot, Slash, "vcf", "gz"}

InitPrefix ==
    /\ RunIdle
    /\ call \in [fn : {"obtain_vcf_file_prefix"},
                 path : SeqsUpTo(PathAtoms, MaxPathLen) \ {<<>>}]
    /\ result = NoCall

CallPrefix ==
    /\ call.fn = "obtain_vcf_file_prefix"
    /\ result = NoCall
    /\ result' = obtain_vcf_file_prefix(call.path)
    /\ UNCHANGED <<run_vars, call>>

SpecPrefix == InitPrefix /\ [][CallPrefix]_vars

\* the file name ends with ".vcf.gz", or is "vcf.gz"
EndsWithVcfGz(name) ==
    /\ Len(name) >= 3
    /\ SubSeq(name, Len(name) - 2, Len(name)) = <<"vcf", Dot, "gz">>
    /\ Len(name) > 3 => name[Len(name) - 3] = Dot

\* C10: a path whose file name ends with the components 'vcf' and 'gz' gives
\* the file name without that suffix; every other path gives
\* InappropriateVCFSuffix and no other error.
C10_PrefixOrInvalidSuffix ==
    result # NoCall =>
        LET name == PathTail(call.path)
        IN  IF EndsWithVcfGz(name)
            THEN /\ result.status = "ok"
                 /\ result.value = SubSeq(name, 1, Len(name) - 4)
            ELSE result.status = "InappropriateVCFSuffix"

\* at most MaxRecs records out of every contig-chr1 record of the model
IsecRecords ==
    {Rec("chr1", pos, kind, {alt}, {}) :
        pos \in 1..MaxPos, kind \in {"snp", "indel"}, alt \in {"T", "G"}}

IsecFiles(samples) ==
    {Vcf(samples, recs) :
        recs \in {R \in SUBSET IsecRecords : Cardinality(R) <= MaxRecs}}

InitIsec ==
    /\ RunIdle
    /\ call \in [fn : {"output_missing_pgx_positions"},
                 file_ref_pgx_vcf : IsecFiles(<<PharmCAT>>),
                 input_vcf : IsecFiles(<<<<"a">>, PharmCAT>>)]
    /\ result = NoCall

CallIsec ==
    /\ call.fn = "output_missing_pgx_positions"
    /\ result = NoCall
    /\ result' = IsecComplement(call.file_ref_pgx_vcf, call.input_vcf)
    /\ UNCHANGED <<run_vars, call>>

SpecIsec == InitIsec /\ [][CallIsec]_vars

Entries(v) == {IsecKey(r) : r \in v.recs}

\* C7 as stated: the report's entries together with the input's entries are
\* the template's entries.
C7_UnionIsTemplate ==
    result # NoCall =>
        Entries(result) \cup Entries(call.input_vcf)
            = Entries(call.file_ref_pgx_vcf)

\* C7 amended: the report's entries together with the input's entries that
\* are template entries are the template's entries (the input's entries
\* outside the template are in neither).
C7_UnionWithinTemplateIsTemplate ==
    result # NoCall =>
        Entries(result)
            \cup (Entries(call.input_vcf) \cap Entries(call.file_ref_pgx_vcf))
            = Entries(call.file_ref_pgx_vcf)

\* C7 witness: the report is not empty, the input has a record at a position
\* the template has none at, and an indel of the template is matched by an
\* indel of the input with other alleles.
C7_Witness ==
    /\ result # NoCall
    /\ result.recs # {}
    /\ \E r \in call.input_vcf.recs :
          \A t \in call.file_ref_pgx_vcf.recs : r.pos # t.pos
    /\ \E t \in call.file_ref_pgx_vcf.recs, r \in call.input_vcf.recs :
          /\ t.kind = "indel"
          /\ IsecKey(t) = IsecKey(r)
          /\ t.alts # r.alts

====
